---- MODULE Spec2Model ----
(***************************************************************************)
(* Model of eth-fabulous: a vanity-address search.  run (src/src/lib.rs)   *)
(* compiles a regex, spawns `cpus` worker threads that each execute        *)
(* try_generate_wallet, joins them and takes the account out of a          *)
(* Mutex<Option<Account>>.  Account (src/src/account.rs) derives a public  *)
(* key and an address from 32 bytes and renders them as 0x-prefixed hex.   *)
(*                                                                         *)
(* Every access to the shared AtomicBool / AtomicU64 / Mutex is one        *)
(* action; thread-local computation is folded into the action that         *)
(* follows the shared access it depends on.                                *)
(***************************************************************************)
EXTENDS Integers, Sequences, FiniteSets, TLC

\* ------------------------------------------------------------- bounds ----
\* largest worker count (cpus) a run is called with
MaxWorkers == 2
\* candidates the workers of a run start (load trying as true) before the
\* model stops following the search
MaxTries == 3
\* the 32-byte entropy values are the big-endian integers 0..MaxKey
MaxKey == 3

Runs == {1, 2}
Workers == 1..MaxWorkers
Keys == 0..MaxKey

\* Option<T>
None == <<>>
Some(x) == <<x>>

\* ------------------------------------------------ account.rs: hex --------
HexDigits == <<"0","1","2","3","4","5","6","7","8","9","a","b","c","d","e","f">>

\* format!("{:02x}", byte)
ByteToHexNoPad(b) ==
    IF b < 16 THEN <<HexDigits[b + 1]>>
    ELSE <<HexDigits[(b \div 16) + 1], HexDigits[(b % 16) + 1]>>
ByteToHex(b) == <<HexDigits[(b \div 16) + 1], HexDigits[(b % 16) + 1]>>

RECURSIVE byte_array_to_hex(_)
byte_array_to_hex(v) ==
    IF v = <<>> THEN <<>> ELSE ByteToHex(Head(v)) \o byte_array_to_hex(Tail(v))

byte_array_to_hex_prefixed(v) == <<"0", "x">> \o byte_array_to_hex(v)

\* ------------------------------------------------ account.rs: Account ----
\* the [u8; 32] holding the integer k (k < 256), big-endian
KeyBytes(k) == [i \in 1..32 |-> IF i = 32 THEN k ELSE 0]

\* stand-in for the secp256k1 group order: keys >= CurveOrder are rejected
CurveOrder == MaxKey

\* SecretKey::from_slice(..) is Ok: the key is non-zero and below the order
SecretKeyValid(k) == k # 0 /\ k < CurveOrder

\* PublicKey::from_secret_key + serialize_uncompressed: 0x04 then 64 bytes,
\* a fixed deterministic function of the key
SerializeUncompressed(k) == <<4>> \o [i \in 1..64 |-> (k * i) % 256]

\* Keccak256: a fixed deterministic function from bytes to 32 bytes
Keccak256(input) == [i \in 1..32 |-> (128 * input[i]) % 256]

\* Account::new for a valid key
AccountNew(k) ==
    LET pub_key == Tail(SerializeUncompressed(k))
        hash    == Keccak256(pub_key)
    IN  [priv_key |-> KeyBytes(k),
         pub_key  |-> pub_key,
         address  |-> SubSeq(hash, 13, 32)]

priv_key_as_hex(a) == byte_array_to_hex_prefixed(a.priv_key)
pub_key_as_hex(a) == byte_array_to_hex_prefixed(a.pub_key)
address_as_hex(a) == byte_array_to_hex_prefixed(a.address)

\* lines 26 and 33, account.address_as_hex() of the account built from
\* each key
Addresses == [k \in Keys |-> address_as_hex(AccountNew(k))]

\* ------------------------------------------------ regex ------------------
\* the search strings run is called with: test_run's, the spec's anchored
\* one and a malformed one
Patterns == { <<"0","0","0","0">>,
              <<"^","0","x","0","0","0","0">>,
              <<"[">> }

\* Regex::new(s) is Ok: no character class is left open
RegexCompilesBroken(s) == TRUE
RegexCompiles(s) ==
    \A i \in 1..Len(s) : s[i] = "[" => \E j \in (i+1)..Len(s) : s[j] = "]"

\* the compiled regex: an optional ^ anchor and a literal
RegexNew(s) ==
    IF Len(s) > 0 /\ s[1] = "^"
    THEN [anchored |-> TRUE, lit |-> Tail(s)]
    ELSE [anchored |-> FALSE, lit |-> s]

\* Regex::is_match: unanchored search unless the pattern starts with ^
IsMatch(re, text) ==
    \E i \in (IF re.anchored THEN {0} ELSE 0..(Len(text) - Len(re.lit))) :
        /\ i + Len(re.lit) <= Len(text)
        /\ SubSeq(text, i + 1, i + Len(re.lit)) = re.lit


\* ------------------------------------------------ lib.rs: state ----------
VARIABLES
    pattern,    \* run's `search` argument, per run
    cpus,       \* run's `cpus` argument, per run
    verbosity,  \* run's `verbosity` argument, per run
    budget,     \* candidates the model follows each run for
    rpc,        \* where each run is: idle (not called), compile, spawn,
                \* join, read, done (returned Ok), panicked
    regex,      \* the compiled Regex, per run
    spawned,    \* workers pushed by the spawn loop, per run
    joined,     \* workers joined by the join loop, per run
    returned,   \* the account run returned, per run
    failure,    \* the unwrap that panicked in run: regex, join or unwrap
    trying,     \* the AtomicBool, per allocation
    tries,      \* the AtomicU64, per allocation
    account,    \* the Mutex<Option<Account>>, per allocation: its value
    lock,       \* ... and the thread that holds its guard, if any
    wpc,        \* where each worker thread is: idle (not spawned), load,
                \* add, new, flip, lock, store, exited, panicked
    pk_src,     \* the worker's [u8; 32]
    result,     \* the worker's `result` local
    drawn,      \* history: fill_bytes calls of the run's workers
    adds,       \* history: fetch_add calls of the run's workers
    late,       \* history: fetch_add calls of the worker made while trying
                \* was already false
    found,      \* history: keys whose address a worker of the run matched
    flipped,    \* history: workers of the run that executed fetch_and
    writes,     \* history: stores into the account mutex
    writer,     \* history: runs whose workers stored into the account mutex
    flips,      \* history: true -> false transitions of trying
    cancelled,  \* history: trying was cleared from outside before any match
    tested,     \* history: is_match calls of the run's workers
    printed     \* history: lines the run has written to stdout and stderr

vars == <<pattern, cpus, verbosity, budget, rpc, regex, spawned, joined,
          returned, failure, trying, tries, account, lock, wpc, pk_src,
          result, drawn, adds, late, found, flipped, writes, writer, flips,
          cancelled, tested, printed>>

runVars == <<pattern, cpus, verbosity, budget, rpc, regex, spawned, joined,
             returned, failure>>
sharedVars == <<trying, tries, account, lock>>
workerVars == <<wpc, pk_src, result>>
historyVars == <<drawn, adds, late, found, flipped, writes, writer, flips,
                 cancelled, tested, printed>>

\* the allocation (Arc) a run's shared state lives in: each call of run
\* builds its own AtomicBool, AtomicU64 and Mutex
StateOfSingleton(r) == 1
StateOf(r) == r

\* test_run's pattern and the malformed one
ConcPattern == <<"0","0","0","0">>
InvalidPattern == <<"[">>

\* candidates the model follows run r for
TryCap(r) == budget[r]

\* candidates of run r started so far: counted, or about to be (line 25)
Started(r) == tries[StateOf(r)] + Cardinality({w \in Workers : wpc[r][w] = "add"})

InitState ==
    /\ regex = [r \in Runs |-> None]
    /\ spawned = [r \in Runs |-> 0]
    /\ joined = [r \in Runs |-> 0]
    /\ returned = [r \in Runs |-> None]
    /\ failure = [r \in Runs |-> "none"]
    /\ trying = [c \in Runs |-> TRUE]
    /\ tries = [c \in Runs |-> 0]
    /\ account = [c \in Runs |-> None]
    /\ lock = [c \in Runs |-> None]
    /\ wpc = [r \in Runs |-> [w \in Workers |-> "idle"]]
    /\ pk_src = [r \in Runs |-> [w \in Workers |-> 0]]
    /\ result = [r \in Runs |-> [w \in Workers |-> None]]
    /\ drawn = [r \in Runs |-> 0]
    /\ adds = [r \in Runs |-> 0]
    /\ late = [r \in Runs |-> [w \in Workers |-> 0]]
    /\ found = [r \in Runs |-> {}]
    /\ flipped = [r \in Runs |-> {}]
    /\ writes = [c \in Runs |-> 0]
    /\ writer = [c \in Runs |-> {}]
    /\ flips = [c \in Runs |-> 0]
    /\ cancelled = [r \in Runs |-> FALSE]
    /\ tested = [r \in Runs |-> 0]
    /\ printed = [r \in Runs |-> 0]

InitCommon ==
    /\ InitState
    /\ cpus \in {c \in [Runs -> 0..MaxWorkers] : c[2] = 1}

\* verbosity: u64, with a value on each side of the thresholds of lines
\* 29, 54 and 84
Verbosities == 0 .. 2

\* one search, with any of the patterns and test_run's verbosity
Init ==
    /\ InitCommon
    /\ pattern \in {p \in [Runs -> Patterns] : p[2] = ConcPattern}
    /\ verbosity = [r \in Runs |-> 1]
    /\ budget = [r \in Runs |-> IF r = 1 THEN MaxTries ELSE 1]
    /\ rpc = [r \in Runs |-> IF r = 1 THEN "compile" ELSE "idle"]

\* two searches called concurrently: the first with test_run's pattern or
\* the malformed one, the second test_run's pattern on one thread,
\* followed for a single candidate, the first for one candidate fewer
\* than a search alone; both silent (verbosity 0)
InitConc ==
    /\ InitCommon
    /\ pattern \in {p \in [Runs -> {ConcPattern, InvalidPattern}] : p[2] = ConcPattern}
    /\ verbosity = [r \in Runs |-> 0]
    /\ budget = [r \in Runs |-> IF r = 1 THEN MaxTries - 1 ELSE 1]
    /\ rpc = [r \in Runs |-> "compile"]

\* the same search made twice, at two verbosity levels, the quieter first
InitLock ==
    /\ InitState
    /\ cpus \in {c \in [Runs -> 0..MaxWorkers] : c[1] = c[2]}
    /\ pattern \in {p \in [Runs -> Patterns] : p[1] = p[2]}
    /\ verbosity \in {v \in [Runs -> Verbosities] : v[1] < v[2]}
    /\ budget = [r \in Runs |-> MaxTries]
    /\ rpc = [r \in Runs |-> "compile"]

\* ------------------------------------------------ lib.rs: output ---------
\* lines 54-60: the five lines printed before the search
Banner(v) == IF v >= 2 THEN 5 ELSE 0

\* lines 29-31: the candidate's address, printed for every attempt
Progress(v) == IF v >= 2 THEN 1 ELSE 0

\* lines 84-110: the statistics and the account; the rate is printed when
\* at least a second has elapsed
Summary(v, slow) == IF v >= 1 THEN (IF slow THEN 7 ELSE 6) ELSE 0

\* ------------------------------------------------ lib.rs: run ------------
\* line 49, Regex::new(search).unwrap() is Ok; lines 50-52 build the shared
\* state of this call
CompileOk(r) ==
    /\ rpc[r] = "compile"
    /\ RegexCompiles(pattern[r])
    /\ regex' = [regex EXCEPT ![r] = Some(RegexNew(pattern[r]))]
    /\ trying' = [trying EXCEPT ![StateOf(r)] = TRUE]
    /\ account' = [account EXCEPT ![StateOf(r)] = None]
    /\ tries' = [tries EXCEPT ![StateOf(r)] = 0]
    /\ lock' = [lock EXCEPT ![StateOf(r)] = None]
    /\ printed' = [printed EXCEPT ![r] = @ + Banner(verbosity[r])]
    /\ rpc' = [rpc EXCEPT ![r] = "spawn"]
    /\ UNCHANGED <<pattern, cpus, verbosity, budget,
                 spawned, joined, returned, failure>>
    /\ UNCHANGED <<workerVars, drawn, adds, late, found, flipped, writes, writer,
                 flips, cancelled, tested>>

\* line 49, Regex::new(search) is Err and unwrap panics
CompileFail(r) ==
    /\ rpc[r] = "compile"
    /\ ~RegexCompiles(pattern[r])
    /\ rpc' = [rpc EXCEPT ![r] = "panicked"]
    /\ failure' = [failure EXCEPT ![r] = "regex"]
    /\ UNCHANGED <<pattern, cpus, verbosity, budget,
                 regex, spawned, joined, returned>>
    /\ UNCHANGED <<sharedVars, workerVars, historyVars>>

\* line 63, for _ in 0..cpus: another iteration follows n iterations
SpawnMoreInclusive(n, c) == n <= c
SpawnMore(n, c) == n < c

\* lines 63-75, one iteration of the spawn loop: the thread starts at the
\* top of try_generate_wallet's loop
Spawn(r) ==
    /\ rpc[r] = "spawn"
    /\ SpawnMore(spawned[r], cpus[r])
    /\ spawned' = [spawned EXCEPT ![r] = @ + 1]
    /\ wpc' = [wpc EXCEPT ![r][spawned[r] + 1] = "load"]
    /\ UNCHANGED <<pattern, cpus, verbosity, budget,
                 rpc, regex, joined, returned, failure>>
    /\ UNCHANGED <<sharedVars, pk_src, result, historyVars>>

\* line 63, the spawn loop ends
SpawnDone(r) ==
    /\ rpc[r] = "spawn"
    /\ ~SpawnMore(spawned[r], cpus[r])
    /\ rpc' = [rpc EXCEPT ![r] = "join"]
    /\ UNCHANGED <<pattern, cpus, verbosity, budget,
                 regex, spawned, joined, returned, failure>>
    /\ UNCHANGED <<sharedVars, workerVars, historyVars>>

\* JoinHandle::join on a thread at pc: blocks until the thread has ended,
\* Ok if it returned, Err if it panicked
JoinResultEarly(pc) == IF pc = "panicked" THEN "Err" ELSE "Ok"
JoinResult(pc) ==
    IF pc = "exited" THEN "Ok" ELSE IF pc = "panicked" THEN "Err" ELSE "blocked"

\* line 78, worker.join() is Ok
JoinOk(r) ==
    /\ rpc[r] = "join"
    /\ joined[r] < cpus[r]
    /\ JoinResult(wpc[r][joined[r] + 1]) = "Ok"
    /\ joined' = [joined EXCEPT ![r] = @ + 1]
    /\ UNCHANGED <<pattern, cpus, verbosity, budget,
                 rpc, regex, spawned, returned, failure>>
    /\ UNCHANGED <<sharedVars, workerVars, historyVars>>

\* line 78, worker.join() is Err and unwrap panics
JoinPanic(r) ==
    /\ rpc[r] = "join"
    /\ joined[r] < cpus[r]
    /\ JoinResult(wpc[r][joined[r] + 1]) = "Err"
    /\ rpc' = [rpc EXCEPT ![r] = "panicked"]
    /\ failure' = [failure EXCEPT ![r] = "join"]
    /\ UNCHANGED <<pattern, cpus, verbosity, budget,
                 regex, spawned, joined, returned>>
    /\ UNCHANGED <<sharedVars, workerVars, historyVars>>

\* line 77, the join loop ends
JoinDone(r) ==
    /\ rpc[r] = "join"
    /\ joined[r] = cpus[r]
    /\ rpc' = [rpc EXCEPT ![r] = "read"]
    /\ UNCHANGED <<pattern, cpus, verbosity, budget,
                 regex, spawned, joined, returned, failure>>
    /\ UNCHANGED <<sharedVars, workerVars, historyVars>>

\* lines 81-112, the guard is free and account.lock().unwrap().take() is
\* Some: the slot is left empty, the guard is dropped and run returns
\* Ok(account)
ReadOk(r) ==
    /\ rpc[r] = "read"
    /\ lock[StateOf(r)] = None
    /\ account[StateOf(r)] # None
    /\ returned' = [returned EXCEPT ![r] = account[StateOf(r)]]
    /\ account' = [account EXCEPT ![StateOf(r)] = None]
    /\ \E slow \in BOOLEAN :
           printed' = [printed EXCEPT ![r] = @ + Summary(verbosity[r], slow)]
    /\ rpc' = [rpc EXCEPT ![r] = "done"]
    /\ UNCHANGED <<pattern, cpus, verbosity, budget,
                 regex, spawned, joined, failure>>
    /\ UNCHANGED <<trying, tries, lock, workerVars>>
    /\ UNCHANGED <<drawn, adds, late, found, flipped, writes, writer, flips,
                 cancelled, tested>>

\* line 81, take() is None and unwrap panics
ReadPanic(r) ==
    /\ rpc[r] = "read"
    /\ lock[StateOf(r)] = None
    /\ account[StateOf(r)] = None
    /\ rpc' = [rpc EXCEPT ![r] = "panicked"]
    /\ failure' = [failure EXCEPT ![r] = "unwrap"]
    /\ UNCHANGED <<pattern, cpus, verbosity, budget,
                 regex, spawned, joined, returned>>
    /\ UNCHANGED <<sharedVars, workerVars, historyVars>>

\* ------------------------------------------------ lib.rs: worker ---------
\* AtomicBool::fetch_and(false): the value stored
FetchAndToggle(b) == ~b
FetchAnd(b) == b /\ FALSE

\* the value of `result` after the test of line 33: Some(account) on a
\* match (line 34), left alone otherwise
ResultAfterTestAlways(matched, k, old) == Some(k)
ResultAfterTest(matched, k, old) == IF matched THEN Some(k) ELSE old

\* where the loop goes after a candidate that does not match: back to the
\* top, line 23, and so through the load of line 24
AfterMissNoCheck == "add"
AfterMiss == "load"

\* lines 70-72 after try_generate_wallet returned res: Some is stored,
\* None ends the thread
ClosureNext(res) == IF res # None THEN "lock" ELSE "exited"

\* line 33 behind the block of lines 29-31: the block only prints, the
\* candidate is tested whatever the verbosity
MatchesWhenQuiet(v, re, text) == v < 2 /\ IsMatch(re, text)
Matches(v, re, text) == IsMatch(re, text)

\* the guard held once the statement of line 71 has ended: none, the
\* temporary guard is dropped
GuardLeaked(holder) == holder
GuardAfterStore(holder) == None

\* the thread has ended: its locals are dropped
ThreadEnded(pc) == pc \in {"exited", "panicked"}
Dropped(pc, v, init) == IF ThreadEnded(pc) THEN init ELSE v

\* lines 23-24, fill_bytes and trying.load() is true
LoadTrue(r, w) ==
    /\ wpc[r][w] = "load"
    /\ Started(r) < TryCap(r)
    /\ trying[StateOf(r)]
    /\ \E k \in Keys : pk_src' = [pk_src EXCEPT ![r][w] = k]
    /\ drawn' = [drawn EXCEPT ![r] = @ + 1]
    /\ wpc' = [wpc EXCEPT ![r][w] = "add"]
    /\ UNCHANGED <<runVars, sharedVars, result>>
    /\ UNCHANGED <<adds, late, found, flipped, writes, writer, flips, cancelled,
                 tested, printed>>

\* lines 23-24 and 40-44, fill_bytes and trying.load() is false: break,
\* return result
LoadFalse(r, w) ==
    /\ wpc[r][w] = "load"
    /\ ~trying[StateOf(r)]
    /\ LET next == ClosureNext(result[r][w]) IN
        /\ wpc' = [wpc EXCEPT ![r][w] = next]
        /\ \E k \in {Dropped(next, k, 0) : k \in Keys} :
               pk_src' = [pk_src EXCEPT ![r][w] = k]
    /\ drawn' = [drawn EXCEPT ![r] = @ + 1]
    /\ UNCHANGED <<runVars, sharedVars, result>>
    /\ UNCHANGED <<adds, late, found, flipped, writes, writer, flips, cancelled,
                 tested, printed>>

\* line 25, the value fetch_add(1) leaves in the counter
FetchAddTwice(t) == t + 2
FetchAddValue(t) == t + 1

\* line 25, tries.fetch_add(1)
FetchAdd(r, w) ==
    /\ wpc[r][w] = "add"
    /\ tries[StateOf(r)] < TryCap(r)
    /\ tries' = [tries EXCEPT ![StateOf(r)] = FetchAddValue(@)]
    /\ adds' = [adds EXCEPT ![r] = @ + 1]
    /\ late' = [late EXCEPT ![r][w] = IF trying[StateOf(r)] THEN @ ELSE @ + 1]
    /\ wpc' = [wpc EXCEPT ![r][w] = "new"]
    /\ UNCHANGED <<runVars, trying, account, lock, pk_src, result>>
    /\ UNCHANGED <<drawn, found, flipped, writes, writer, flips, cancelled,
                 tested, printed>>

\* line 26, Account::new panics (account.rs line 16, expect on an invalid
\* key): the thread ends by panic
DerivePanic(r, w) ==
    /\ wpc[r][w] = "new"
    /\ ~SecretKeyValid(pk_src[r][w])
    /\ wpc' = [wpc EXCEPT ![r][w] = "panicked"]
    /\ pk_src' = [pk_src EXCEPT ![r][w] = Dropped("panicked", @, 0)]
    /\ result' = [result EXCEPT ![r][w] = Dropped("panicked", @, None)]
    /\ UNCHANGED <<runVars, sharedVars, historyVars>>

\* lines 26-34, the address matches: result = Some(account)
TestMatch(r, w) ==
    /\ wpc[r][w] = "new"
    /\ SecretKeyValid(pk_src[r][w])
    /\ Matches(verbosity[r], regex[r][1], Addresses[pk_src[r][w]])
    /\ tested' = [tested EXCEPT ![r] = @ + 1]
    /\ printed' = [printed EXCEPT ![r] = @ + Progress(verbosity[r]) + 1]
    /\ result' = [result EXCEPT ![r][w] = ResultAfterTest(TRUE, pk_src[r][w], @)]
    /\ found' = [found EXCEPT ![r] = @ \cup {pk_src[r][w]}]
    /\ wpc' = [wpc EXCEPT ![r][w] = "flip"]
    /\ UNCHANGED <<runVars, sharedVars, pk_src>>
    /\ UNCHANGED <<drawn, adds, late, flipped, writes, writer, flips, cancelled>>

\* lines 26-33 and 22, the address does not match: loop
TestMiss(r, w) ==
    /\ wpc[r][w] = "new"
    /\ SecretKeyValid(pk_src[r][w])
    /\ ~Matches(verbosity[r], regex[r][1], Addresses[pk_src[r][w]])
    /\ tested' = [tested EXCEPT ![r] = @ + 1]
    /\ printed' = [printed EXCEPT ![r] = @ + Progress(verbosity[r])]
    /\ result' = [result EXCEPT ![r][w] = ResultAfterTest(FALSE, pk_src[r][w], @)]
    /\ wpc' = [wpc EXCEPT ![r][w] = AfterMiss]
    /\ UNCHANGED <<runVars, sharedVars, pk_src>>
    /\ UNCHANGED <<drawn, adds, late, found, flipped, writes, writer, flips,
                 cancelled>>

\* lines 36-37 and 44, trying.fetch_and(false), break, return result
Flip(r, w) ==
    /\ wpc[r][w] = "flip"
    /\ trying' = [trying EXCEPT ![StateOf(r)] = FetchAnd(@)]
    /\ flips' = [flips EXCEPT ![StateOf(r)] = IF trying[StateOf(r)] THEN @ + 1 ELSE @]
    /\ flipped' = [flipped EXCEPT ![r] = @ \cup {w}]
    /\ wpc' = [wpc EXCEPT ![r][w] = ClosureNext(result[r][w])]
    /\ UNCHANGED <<runVars, tries, account, lock, pk_src, result>>
    /\ UNCHANGED <<drawn, adds, late, found, writes, writer, cancelled,
                 tested, printed>>

\* line 71, account.lock().unwrap(): the thread waits until the guard is
\* free and takes it
Lock(r, w) ==
    /\ wpc[r][w] = "lock"
    /\ lock[StateOf(r)] = None
    /\ lock' = [lock EXCEPT ![StateOf(r)] = Some(<<r, w>>)]
    /\ wpc' = [wpc EXCEPT ![r][w] = "store"]
    /\ UNCHANGED <<runVars, trying, tries, account, pk_src, result, historyVars>>

\* line 71, *guard = Some(result); the guard is dropped and the thread ends
Store(r, w) ==
    /\ wpc[r][w] = "store"
    /\ account' = [account EXCEPT ![StateOf(r)] = result[r][w]]
    /\ lock' = [lock EXCEPT ![StateOf(r)] = GuardAfterStore(@)]
    /\ writes' = [writes EXCEPT ![StateOf(r)] = @ + 1]
    /\ writer' = [writer EXCEPT ![StateOf(r)] = @ \cup {r}]
    /\ wpc' = [wpc EXCEPT ![r][w] = "exited"]
    /\ pk_src' = [pk_src EXCEPT ![r][w] = Dropped("exited", @, 0)]
    /\ result' = [result EXCEPT ![r][w] = Dropped("exited", @, None)]
    /\ UNCHANGED <<runVars, trying, tries>>
    /\ UNCHANGED <<drawn, adds, late, found, flipped, flips, cancelled,
                 tested, printed>>

\* the caller-side cancellation of the design: somebody holding the flag
\* stores false into it while the search is under way
ExternalCancel(r) ==
    /\ rpc[r] \in {"spawn", "join"}
    /\ trying[StateOf(r)]
    /\ trying' = [trying EXCEPT ![StateOf(r)] = FALSE]
    /\ cancelled' = [cancelled EXCEPT ![r] = (found[r] = {})]
    /\ UNCHANGED <<runVars, tries, account, lock, workerVars>>
    /\ UNCHANGED <<drawn, adds, late, found, flipped, writes, writer, flips,
                 tested, printed>>

RunStep(r) ==
    \/ CompileOk(r) \/ CompileFail(r)
    \/ Spawn(r) \/ SpawnDone(r)
    \/ JoinOk(r) \/ JoinPanic(r) \/ JoinDone(r)
    \/ ReadOk(r) \/ ReadPanic(r)

WorkerStep(r, w) ==
    \/ LoadTrue(r, w) \/ LoadFalse(r, w)
    \/ FetchAdd(r, w)
    \/ DerivePanic(r, w) \/ TestMatch(r, w) \/ TestMiss(r, w)
    \/ Flip(r, w) \/ Lock(r, w) \/ Store(r, w)

Next == \E r \in Runs : RunStep(r) \/ \E w \in Workers : WorkerStep(r, w)

NextCancel == Next \/ \E r \in Runs : ExternalCancel(r)

\* everything that decides what search r does next and what it returns:
\* run's position and locals, the shared state of lines 50-52 and of the
\* guard of line 71, every thread's position and locals
RunView(r) ==
    <<rpc[r], regex[r], spawned[r], joined[r], returned[r], failure[r],
      trying[StateOf(r)], tries[StateOf(r)], account[StateOf(r)],
      IF lock[StateOf(r)] = None THEN None ELSE Some(lock[StateOf(r)][1][2]),
      wpc[r], pk_src[r], result[r]>>

\* the first search takes a step, with any entropy and any scheduling
Lead ==
    /\ RunView(1) = RunView(2)
    /\ RunStep(1) \/ \E w \in Workers : WorkerStep(1, w)

\* the second search takes the same step: the same thread runs and draws
\* the same bytes
Follow ==
    /\ RunView(1) # RunView(2)
    /\ RunStep(2) \/ \E w \in Workers : WorkerStep(2, w)
    /\ RunView(1)' = RunView(2)'

NextLock == Lead \/ Follow

\* one call of run
Spec == Init /\ [][Next]_vars

\* two concurrent calls of run
SpecConc == InitConc /\ [][Next]_vars

\* one call of run whose flag a caller may clear
SpecCancel == Init /\ [][NextCancel]_vars

\* the same search at two verbosity levels, stepped together
SpecLock == InitLock /\ [][NextLock]_vars


\* ------------------------------------------------ properties -------------
RECURSIVE SumOver(_, _)
SumOver(f, n) == IF n = 0 THEN 0 ELSE f[n] + SumOver(f, n - 1)

\* C1: whenever run returns, the account it returns has a key that some
\* worker of that run drew and tested positive, and its hexadecimal address
\* matches the pattern.
C1_ReturnedWasMatched ==
    \A r \in Runs :
        returned[r] # None =>
            /\ rpc[r] = "done"
            /\ returned[r][1] \in found[r]
            /\ SecretKeyValid(returned[r][1])
            /\ IsMatch(RegexNew(pattern[r]),
                       address_as_hex(AccountNew(returned[r][1])))

C1_Witness ==
    \E r \in Runs : rpc[r] = "done" /\ returned[r] # None /\ cpus[r] = MaxWorkers

\* C2: during one search the result slot is written at most once.
C2_SingleWrite == \A c \in Runs : writes[c] <= 1

\* C3: with at least one worker and no outside cancellation, when run
\* reads the result slot after the join loop the slot holds an account.
C3_ResultPresentAtRead ==
    \A r \in Runs :
        (rpc[r] = "read" /\ cpus[r] >= 1) =>
            /\ account[StateOf(r)] # None
            /\ Len(account[StateOf(r)]) = 1

C3_Witness ==
    \E r \in Runs : rpc[r] = "read" /\ cpus[r] = MaxWorkers /\ writes[StateOf(r)] >= 1

\* C4: once trying is false a worker increments tries (and tests a
\* candidate) at most one more time, and after a worker's winning flip
\* tries grows by at most cpus - 1.
C4_AtMostOneLateAttempt ==
    \A r \in Runs :
        /\ \A w \in Workers : late[r][w] <= 1
        /\ flips[StateOf(r)] >= 1 => SumOver(late[r], MaxWorkers) <= cpus[r] - 1

C4_Witness ==
    \E r \in Runs : \E w \in Workers :
        /\ flips[StateOf(r)] = 1
        /\ late[r][w] = 1
        /\ wpc[r][w] = "exited"
        /\ w \notin flipped[r]

\* C5: run reads the result slot, and returns, only after every one of its
\* cpus workers has left its loop and ended.
C5_ReadAfterAllJoined ==
    \A r \in Runs :
        (rpc[r] \in {"read", "done"} \/ failure[r] = "unwrap") =>
            \A w \in 1..cpus[r] : wpc[r][w] = "exited"

C5_Witness ==
    \E r \in Runs :
        /\ rpc[r] = "done"
        /\ cpus[r] = MaxWorkers
        /\ \E w \in Workers : w \notin flipped[r] /\ wpc[r][w] = "exited"

\* C6: when trying is cleared from outside before any worker has found a
\* match (cpus >= 1), the result slot stays empty and the search does not
\* fail.
C6_CancelEndsEmpty ==
    \A r \in Runs :
        (cancelled[r] /\ cpus[r] >= 1) =>
            /\ account[StateOf(r)] = None
            /\ returned[r] = None
            /\ failure[r] # "unwrap"

\* C7: with a pattern that does not compile run fails at the compilation:
\* no worker is spawned, tries stays 0 and the result slot stays empty.
C7_InvalidPatternNoWorkers ==
    \A r \in Runs :
        (pattern[r] = InvalidPattern /\ rpc[r] \notin {"idle", "compile"}) =>
            /\ rpc[r] = "panicked"
            /\ failure[r] = "regex"
            /\ spawned[r] = 0
            /\ \A w \in Workers : wpc[r][w] = "idle"
            /\ adds[r] = 0
            /\ tries[StateOf(r)] = 0
            /\ account[StateOf(r)] = None
            /\ returned[r] = None

C7_Witness ==
    \E r \in Runs : pattern[r] = InvalidPattern /\ rpc[r] = "panicked" /\ cpus[r] >= 1

\* C8: a derivation failure in one worker does not abort the search: run
\* never fails because a worker ended on an invalid key.
C8_DerivationFailureIsolated ==
    \A r \in Runs :
        (\E w \in Workers : wpc[r][w] = "panicked") => failure[r] # "join"

\* C9: trying is true when the workers are spawned, never goes from false
\* back to true, and makes at most one true -> false transition.
C9_TryingMonotone ==
    [][\A r \in Runs :
          /\ (rpc[r] = "compile" /\ rpc'[r] = "spawn") =>
                 (trying'[StateOf(r)] /\ flips'[StateOf(r)] = 0)
          /\ ~trying[StateOf(r)] => ~trying'[StateOf(r)]
          /\ flips'[StateOf(r)] <= 1]_vars

C9_Witness ==
    \E r \in Runs :
        /\ flips[StateOf(r)] = 1
        /\ ~trying[StateOf(r)]
        /\ flipped[r] = Workers

\* C10: each run owns its flag, counter and slot: a run's flag is false
\* only if one of its own workers flipped it, its counter is the number of
\* increments of its own workers, and only its own workers store into its
\* slot.
C10_IndependentState ==
    \A r \in Runs :
        /\ ~trying[StateOf(r)] => flipped[r] # {}
        /\ tries[StateOf(r)] = adds[r]
        /\ writer[StateOf(r)] \subseteq {r}
        /\ account[StateOf(r)] # None => account[StateOf(r)][1] \in found[r]

C10_Witness ==
    /\ ~trying[StateOf(1)] /\ tries[StateOf(1)] = 2 /\ writer[StateOf(1)] = {1}
    /\ trying[StateOf(2)] /\ tries[StateOf(2)] = 0 /\ wpc[2][1] = "add"

\* the keys of the accounts that exist in a state: about to be built on
\* line 26, held by a worker, stored in a slot or returned
AccountKeys ==
    UNION {
        {pk_src[r][w] : w \in {v \in Workers :
            /\ wpc[r][v] \in {"new", "flip"}
            /\ SecretKeyValid(pk_src[r][v])}}
        \cup {result[r][w][1] : w \in {v \in Workers : result[r][v] # None}}
        \cup {account[StateOf(r)][1] : x \in {y \in {1} : account[StateOf(r)] # None}}
        \cup {returned[r][1] : x \in {y \in {1} : returned[r] # None}}
        : r \in Runs }

\* "0x" followed by hexadecimal digits only
IsPrefixedHex(s) ==
    /\ Len(s) >= 3
    /\ s[1] = "0" /\ s[2] = "x"
    /\ \A i \in 3..Len(s) : \E d \in 1..16 : s[i] = HexDigits[d]

\* C11: every account built from a 32-byte key renders as "0x" followed by
\* hexadecimal digits, two per byte: 66, 130 and 42 characters.
C11_HexRenderings ==
    \A k \in AccountKeys :
        LET a == AccountNew(k) IN
        /\ Len(a.priv_key) = 32 /\ Len(a.pub_key) = 64 /\ Len(a.address) = 20
        /\ IsPrefixedHex(priv_key_as_hex(a)) /\ Len(priv_key_as_hex(a)) = 66
        /\ IsPrefixedHex(pub_key_as_hex(a)) /\ Len(pub_key_as_hex(a)) = 130
        /\ IsPrefixedHex(address_as_hex(a)) /\ Len(address_as_hex(a)) = 42

C11_Witness ==
    \E r \in Runs : \E w \in Workers :
        /\ wpc[r][w] = "flip"
        /\ result[r][w] # None
        /\ \E k \in AccountKeys : k # result[r][w][1]

\* ------------------------------------------------------------------- C12
\* C12: the verbosity never influences control flow: two searches with the
\* same pattern, thread count, entropy and scheduling but different
\* verbosity go through the same states of trying, tries and account, and
\* return the same account. Whatever step the first search takes, the
\* second can take the same step and lands in the same state.
C12_VerbosityNoControlFlow ==
    /\ RunView(1) # RunView(2) => ENABLED Follow
    /\ rpc[1] = "done" /\ rpc[2] = "done" => returned[1] = returned[2]

\* both searches have returned, having printed different amounts
C12_Witness ==
    /\ rpc[1] = "done" /\ rpc[2] = "done"
    /\ returned[1] # None
    /\ tested[1] >= 2 /\ tested[2] = tested[1]
    /\ printed[1] # printed[2]

\* ------------------------------------------------------------------- C13
\* C13: the store of the winning account and the flip of trying are one
\* atomic step: in no reachable state has a matching worker set trying to
\* false while the result slot is still empty.
C13_FlipImpliesStored ==
    \A r \in Runs :
        flips[StateOf(r)] >= 1 =>
            account[StateOf(r)] # None \/ returned[r] # None

\* ------------------------------------------------------------------- C14
\* C14: a worker whose trying.load() reads false goes straight to its end:
\* it changes neither trying nor tries nor the result slot, and it returns
\* no account.
C14_StoppedWorkerLeavesState ==
    [][\A r \in Runs : \A w \in Workers :
          (/\ wpc[r][w] = "load"
           /\ ~trying[StateOf(r)]
           /\ wpc'[r][w] # wpc[r][w]) =>
              /\ wpc'[r][w] = "exited"
              /\ result[r][w] = None
              /\ trying'[StateOf(r)] = trying[StateOf(r)]
              /\ tries'[StateOf(r)] = tries[StateOf(r)]
              /\ account'[StateOf(r)] = account[StateOf(r)]
              /\ writes'[StateOf(r)] = writes[StateOf(r)]]_vars

\* a worker has stopped on a false flag before the winner has stored
C14_Witness ==
    \E r \in Runs : \E w \in Workers :
        /\ wpc[r][w] = "exited"
        /\ w \notin flipped[r]
        /\ rpc[r] = "join"
        /\ account[StateOf(r)] = None
        /\ tested[r] >= 2

\* ------------------------------------------------------------------- C15
\* C15: tries never decreases, and once every worker of a search with at
\* least one worker has been joined it is at least 1 and equals the number
\* of candidates the workers tested: no increment is lost or doubled.
C15_TriesCountsTested ==
    [][\A r \in Runs :
          /\ tries'[StateOf(r)] >= tries[StateOf(r)]
          /\ (rpc'[r] \in {"read", "done"} /\ cpus'[r] >= 1) =>
                 /\ tries'[StateOf(r)] >= 1
                 /\ tries'[StateOf(r)] = tested'[r]]_vars

C15_Witness ==
    \E r \in Runs :
        /\ rpc[r] = "read"
        /\ cpus[r] = MaxWorkers
        /\ tries[StateOf(r)] = MaxTries
        /\ tested[r] = MaxTries

\* ------------------------------------------------------------------- C16
\* C16 as stated: tries is incremented once per candidate generated, so
\* that at join time it equals the number of candidates drawn.
C16_TriesEqualsDrawn ==
    \A r \in Runs :
        rpc[r] \in {"read", "done"} => tries[StateOf(r)] = drawn[r]

\* C16 amended: at join time tries equals the number of candidates drawn
\* less one for every worker that stopped on reading trying false (it drew
\* on line 23 before the load of line 24 and dropped the bytes uncounted).
C16_TriesEqualsDrawnLessStopped ==
    \A r \in Runs :
        (rpc[r] \in {"read", "done"} /\ cpus[r] >= 1) =>
            drawn[r] - tries[StateOf(r)] =
                Cardinality({w \in 1..cpus[r] : w \notin flipped[r]})

C16_Witness ==
    \E r \in Runs :
        /\ rpc[r] = "done"
        /\ cpus[r] = MaxWorkers
        /\ drawn[r] > tries[StateOf(r)]
        /\ tries[StateOf(r)] >= 2

\* ------------------------------------------------------------------- C17
\* C17: with fair scheduling and a worker that keeps drawing eventually
\* drawing a match, every search with at least one worker terminates and
\* run returns an account; in particular run never ends in a failure.
C17_SearchNeverFails ==
    \A r \in Runs :
        (pattern[r] # InvalidPattern /\ cpus[r] >= 1) => rpc[r] # "panicked"

\* ------------------------------------------------------------------- C18
\* what the code can do next for search r, whatever the model's budget:
\* a step of run, a step of a thread, or another iteration of a thread
\* that is at the top of its loop
CanStep(r) ==
    \/ ENABLED RunStep(r)
    \/ \E w \in Workers : ENABLED WorkerStep(r, w)
    \/ \E w \in Workers : wpc[r][w] = "load" /\ trying[StateOf(r)]

\* C18: the search cannot deadlock: the guard of the result slot is the
\* only exclusive resource, its holder releases it without waiting for
\* anything, and every reachable state before run returns has a step.
C18_NoDeadlock ==
    \A r \in Runs :
        /\ lock[StateOf(r)] # None =>
              /\ wpc[r][lock[StateOf(r)][1][2]] = "store"
              /\ ENABLED Store(r, lock[StateOf(r)][1][2])
        /\ rpc[r] \in {"compile", "spawn", "join", "read"} => CanStep(r)

\* one thread holds the guard while another waits for it
C18_Witness ==
    \E r \in Runs : \E w \in Workers :
        /\ lock[StateOf(r)] # None
        /\ lock[StateOf(r)][1][2] # w
        /\ wpc[r][w] = "lock"

\* ------------------------------------------------------------------- C19
\* C19: whenever the result slot holds an account, trying is false: a
\* worker stores only after its own flip.
C19_StoredImpliesStopped ==
    \A r \in Runs :
        (account[StateOf(r)] # None \/ returned[r] # None) =>
            ~trying[StateOf(r)]

\* the slot is filled while another worker is still in its loop
C19_Witness ==
    \E r \in Runs : \E w \in Workers :
        /\ account[StateOf(r)] # None
        /\ wpc[r][w] = "load"

\* ------------------------------------------------------------------- C20
\* C20: with cpus = 0 no worker is spawned, tries stays 0, trying stays
\* true, the result slot stays empty, and run ends in the failure of the
\* unwrap of the empty result: it returns neither an account nor Err.
C20_ZeroWorkersFails ==
    \A r \in Runs :
        (cpus[r] = 0 /\ pattern[r] # InvalidPattern) =>
            /\ spawned[r] = 0
            /\ \A w \in Workers : wpc[r][w] = "idle"
            /\ tries[StateOf(r)] = 0
            /\ trying[StateOf(r)]
            /\ account[StateOf(r)] = None
            /\ returned[r] = None
            /\ rpc[r] # "done"
            /\ rpc[r] = "panicked" => failure[r] = "unwrap"

C20_Witness ==
    \E r \in Runs :
        cpus[r] = 0 /\ rpc[r] = "panicked" /\ failure[r] = "unwrap"

====
